---- MODULE Spec2Model ----
(***************************************************************************)
(* A model of fedora.client.BaseClient (src/fedora/client/__init__.py):    *)
(* session login, the pickled session file, and send_request with its      *)
(* single re-authentication retry.  Every network exchange is one step:    *)
(* an operation runs until it calls urllib2.urlopen, the server's answer   *)
(* is the input of the next step, and the step runs the code up to the     *)
(* next urlopen or to the end of the top-level call.                       *)
(***************************************************************************)
EXTENDS Integers, Sequences, FiniteSets, TLC

(* ------------------------------ bounds --------------------------------- *)

\* Write halves of _save_session that fail, and arrivals of another process's
\* session file, in one behaviour.
MaxFaults == 1

\* Top-level calls (constructions included) made in one behaviour.
MaxCalls == 3

\* Distinct cookie values a server hands out: 1..MaxSid.
MaxSid == 2

(* ------------------------------ values --------------------------------- *)

\* Python's None, for the string-valued fields (username, password, reqParams).
None == "None"

\* Truth value of a string-or-None: None and '' are false.
Truthy(x) == x # None /\ x # ""

\* Keys a Cookie.SimpleCookie holds here, in the sorted order output() uses.
CookieNames == <<"session", "tg-visit">>

\* self._sessionCookie is None, or a SimpleCookie: a mapping key -> value.
NoneCookie == [isNone |-> TRUE, morsels |-> <<>>]

\* Cookie.SimpleCookie(): a cookie object with no morsel.
SimpleCookie == [isNone |-> FALSE, morsels |-> <<>>]

\* bool(cookie): None is false, and so is a SimpleCookie (a dict) with no key.
CookieTruthy(c) == ~c.isNone /\ DOMAIN c.morsels # {}

\* A Set-Cookie header value is a string; here the sequence of the key=value
\* pairs in it (attributes such as Path yield no pair).
RECURSIVE ParseString(_)
ParseString(pairs) ==
    IF pairs = <<>> THEN <<>>
    ELSE LET rest == ParseString(Tail(pairs))
             k    == Head(pairs)[1]
         IN  [n \in {k} \cup DOMAIN rest |->
                 IF n \in DOMAIN rest THEN rest[n] ELSE Head(pairs)[2]]

\* SimpleCookie.load(rawdata): every pair of the header sets (overrides) its
\* key; keys the header does not name are kept.
SimpleCookie_load(c, pairs) ==
    LET new == ParseString(pairs)
    IN  [isNone |-> FALSE,
         morsels |-> [n \in DOMAIN c.morsels \cup DOMAIN new |->
                         IF n \in DOMAIN new THEN new[n] ELSE c.morsels[n]]]

\* cookie.output(attrs=[], header='').strip(): the key=value pairs, sorted.
RECURSIVE OutputFrom(_, _)
OutputFrom(c, i) ==
    IF i > Len(CookieNames) THEN <<>>
    ELSE (IF CookieNames[i] \in DOMAIN c.morsels
          THEN << <<CookieNames[i], c.morsels[CookieNames[i]]>> >>
          ELSE <<>>) \o OutputFrom(c, i + 1)

SimpleCookie_output(c) == OutputFrom(c, 1)

\* A request's Cookie header: absent, or the rendered pairs.
NoHeader == [present |-> FALSE, pairs |-> <<>>]
Header(pairs) == [present |-> TRUE, pairs |-> pairs]

(* ------------------------------ pickle --------------------------------- *)

\* Keys of the persisted record, in the order the model serialises them.
KeyOrder == <<None, "alice", "bob">>

\* One pickle token: the dict opener, one key/value item, the STOP opcode,
\* or bytes that are no opcode.
Tok(op) == [op |-> op, key |-> None, val |-> NoneCookie]

\* The first bytes of an opcode whose rest is missing (a write cut inside
\* it), with the exception the unpickler raises on reading them.
TornErrors == {"UnpicklingError", "ValueError", "AttributeError"}
Torn(exc) == [op |-> "torn", key |-> exc, val |-> NoneCookie]
Item(k, v) == [op |-> "item", key |-> k, val |-> v]

RECURSIVE DumpFrom(_, _)
DumpFrom(save, i) ==
    IF i > Len(KeyOrder) THEN <<>>
    ELSE (IF KeyOrder[i] \in DOMAIN save
          THEN <<Item(KeyOrder[i], save[KeyOrder[i]])>>
          ELSE <<>>) \o DumpFrom(save, i + 1)

\* pickle.dump(save, sessionFile): the bytes written for a dict.
pickle_dump(save) == <<Tok("dict")>> \o DumpFrom(save, 1) \o <<Tok("stop")>>

RECURSIVE LoadItems(_)
LoadItems(items) ==
    IF items = <<>> THEN <<>>
    ELSE LET n    == Len(items)
             init == LoadItems(SubSeq(items, 1, n - 1))
             last == items[n]
         IN  [k \in DOMAIN init \cup {last.key} |->
                 IF k = last.key THEN last.val ELSE init[k]]

\* pickle.load(sessionFile) reads opcodes from the start of the file up to the
\* first STOP and ignores what follows it: EOFError when the file ends before
\* a STOP, the unpickler's exception on a torn opcode, UnpicklingError on
\* bytes that are no pickle, else the dict.
pickle_load(content) ==
    IF content = <<>>
    THEN [exc |-> "EOFError", value |-> <<>>]
    ELSE IF content[1].op = "torn"
    THEN [exc |-> content[1].key, value |-> <<>>]
    ELSE IF content[1].op # "dict"
    THEN [exc |-> "UnpicklingError", value |-> <<>>]
    ELSE LET ends == {i \in 2..Len(content) : content[i].op # "item"}
         IN  IF ends = {}
             THEN [exc |-> "EOFError", value |-> <<>>]
             ELSE LET n == CHOOSE i \in ends : \A j \in ends : i <= j
                  IN  IF content[n].op = "torn"
                      THEN [exc |-> content[n].key, value |-> <<>>]
                      ELSE IF content[n].op # "stop"
                      THEN [exc |-> "UnpicklingError", value |-> <<>>]
                      ELSE [exc |-> "", value |-> LoadItems(SubSeq(content, 2, n - 1))]

(* --------------------------- the session file -------------------------- *)

\* SESSION_FILE on disk: whether path.isfile() holds, whether this process may
\* open it for reading, its permission bits and its bytes.
NoFile == [isfile |-> FALSE, readable |-> TRUE, mode |-> "none", content |-> <<>>]

\* stat.S_IRUSR | stat.S_IWUSR
OwnerOnly == "0600"

\* How the write half of one _save_session goes: all of it, or the step that
\* raises (at).  A dump that raises has flushed a proper prefix of the bytes:
\* whole opcodes and, when the cut falls inside the next one, its torn
\* beginning.  Another process may put its own file in place meanwhile
\* (taken): after the read, after the open or after the chmod.
WriteOK == [at |-> "ok", flushed |-> 0, torn |-> "", taken |-> ""]

\* The cuts of a dump that raises: nothing flushed, the opening opcode
\* flushed, and the opening opcode followed by a torn one.  (pickle.load
\* delivers nothing before the STOP, so a longer prefix of whole opcodes
\* reads as the opening opcode alone does.)
DumpCuts ==
    {[WriteOK EXCEPT !.at = "dump", !.flushed = Len(<<>>)]}
    \cup {[WriteOK EXCEPT !.at = "dump", !.flushed = Len(<<Tok("dict")>>),
                          !.torn = e] : e \in TornErrors \cup {""}}

WriteFaults ==
    {WriteOK, [WriteOK EXCEPT !.at = "open"], [WriteOK EXCEPT !.at = "chmod"]}
    \cup DumpCuts

\* The file another process has put in place of this one's (a run under
\* another uid, say): this process may neither read nor write it.
OtherFile ==
    [isfile |-> TRUE, readable |-> FALSE, mode |-> OwnerOnly,
     content |-> pickle_dump([bob |-> SimpleCookie_load(SimpleCookie,
                                         << <<CookieNames[2], 1>> >>)])]

\* The other process's file arrives inside the write half.  After the read:
\* file(SESSION_FILE, 'w') raises IOError.  After the open: os.chmod raises
\* OSError.  After the chmod: pickle.dump writes to the file this process
\* holds open, which has no name any more, and succeeds or raises as the
\* disk has it.
Taken ==
    {[WriteOK EXCEPT !.taken = t] : t \in {"read", "open"}}
    \cup {[w EXCEPT !.taken = "chmod"] : w \in {WriteOK} \cup DumpCuts}

\* The write half ran to its end without an exception.
Written(w) == w.at = "ok" /\ w.taken \in {"", "chmod"}

\* What a dump that raised under cut w has left of the bytes.
CutAt(bytes, w) ==
    SubSeq(bytes, 1, IF w.flushed < Len(bytes) THEN w.flushed ELSE Len(bytes) - 1)
    \o (IF w.torn = "" THEN <<>> ELSE <<Torn(w.torn)>>)

\* BaseClient._load_session: the exception that escapes ("" for none) and the
\* in-memory cookie afterwards.  Only EOFError and KeyError are caught;
\* file(SESSION_FILE, 'r') is outside the try.
_load_session(file, username, cookie) ==
    IF ~file.isfile THEN [exc |-> "", cookie |-> cookie]
    ELSE IF ~file.readable THEN [exc |-> "IOError", cookie |-> cookie]
    ELSE LET r == pickle_load(file.content)
         IN  IF r.exc = "EOFError" THEN [exc |-> "", cookie |-> cookie]
             ELSE IF r.exc # "" THEN [exc |-> r.exc, cookie |-> cookie]
             ELSE IF username \in DOMAIN r.value
             THEN [exc |-> "", cookie |-> r.value[username]]
             ELSE [exc |-> "", cookie |-> cookie]

\* The file after file(SESSION_FILE, 'w'): created if missing, truncated.
OpenForWrite(file) ==
    [isfile |-> TRUE, readable |-> TRUE,
     mode |-> IF file.isfile THEN file.mode ELSE "0644", content |-> <<>>]

\* The record _save_session builds: the one read from the file (empty when
\* there is no file or pickle.load raises), with this user's entry set.
SaveRecord(file, username, cookie) ==
    LET r    == IF file.isfile THEN pickle_load(file.content)
                ELSE [exc |-> "", value |-> <<>>]
        save == IF r.exc = "" THEN r.value ELSE <<>>
    IN  [k \in DOMAIN save \cup {username} |->
            IF k = username THEN cookie ELSE save[k]]

\* Faulty variant: the save starts from an empty record and drops the other users.
_save_session_Fresh(file, username, cookie, w) ==
    IF file.isfile /\ ~file.readable THEN [exc |-> "IOError", file |-> file]
    ELSE IF w.taken # "" THEN [exc |-> "", file |-> OtherFile]
    ELSE IF w.at = "open" THEN [exc |-> "", file |-> file]
    ELSE [exc |-> "",
          file |-> [OpenForWrite(file) EXCEPT
                      !.mode = OwnerOnly,
                      !.content = pickle_dump([k \in {username} |-> cookie])]]

\* Faulty variant: os.chmod is left out, the file keeps the mode it has.
_save_session_NoChmod(file, username, cookie, w) ==
    IF file.isfile /\ ~file.readable THEN [exc |-> "IOError", file |-> file]
    ELSE LET bytes  == pickle_dump(SaveRecord(file, username, cookie))
             opened == OpenForWrite(file)
         IN  IF w.taken # "" THEN [exc |-> "", file |-> OtherFile]
             ELSE IF w.at = "open" THEN [exc |-> "", file |-> file]
             ELSE IF w.at = "chmod" THEN [exc |-> "", file |-> opened]
             ELSE IF w.at = "dump"
             THEN [exc |-> "",
                   file |-> [opened EXCEPT !.content = CutAt(bytes, w)]]
             ELSE [exc |-> "", file |-> [opened EXCEPT !.content = bytes]]

\* BaseClient._save_session: the exception that escapes ("" for none) and the
\* file afterwards.  The read-open is outside any try; the write half is
\* inside try/except Exception, which only logs a warning.
_save_session(file, username, cookie, w) ==
    IF file.isfile /\ ~file.readable THEN [exc |-> "IOError", file |-> file]
    ELSE LET bytes  == pickle_dump(SaveRecord(file, username, cookie))
             opened == OpenForWrite(file)
         IN  IF w.taken # "" THEN [exc |-> "", file |-> OtherFile]
             ELSE IF w.at = "open" THEN [exc |-> "", file |-> file]
             ELSE IF w.at = "chmod" THEN [exc |-> "", file |-> opened]
             ELSE IF w.at = "dump"
             THEN [exc |-> "",
                   file |-> [opened EXCEPT !.mode = OwnerOnly,
                                           !.content = CutAt(bytes, w)]]
             ELSE [exc |-> "",
                   file |-> [opened EXCEPT !.mode = OwnerOnly, !.content = bytes]]

(* ------------------------------ the server ----------------------------- *)

\* A response body: not read yet, or once read not JSON or a JSON object
\* (key -> value).
Unread == [read |-> FALSE, json |-> FALSE, obj |-> <<>>]
NotJSON == [read |-> TRUE, json |-> FALSE, obj |-> <<>>]
Json(obj) == [read |-> TRUE, json |-> TRUE, obj |-> obj]

\* What urlopen yields: an HTTPError with its msg, whose body is never read,
\* or a page with its Set-Cookie header and the body read from it.
Response(http, setCookie, body) ==
    [http |-> http, setCookie |-> setCookie, body |-> body]
HttpError(msg) == Response(msg, NoHeader, Unread)
Pending == Response("pending", NoHeader, Unread)

\* Set-Cookie values a server sends: one with no key=value pair, or one pair.
SetCookieHeaders ==
    {Header(<<>>)} \cup {Header(<< <<CookieNames[2], v>> >>) : v \in 1..MaxSid}

LoginBodies == {Json([user |-> "alice"]), Json([message |-> "bad password"]), NotJSON}

LoginResponses ==
    {HttpError("Forbidden"), HttpError("Internal Server Error")}
    \cup {Response("OK", NoHeader, b) : b \in LoginBodies}
    \cup {Response("OK", h, Json([user |-> "alice"])) : h \in SetCookieHeaders}

\* What urlopen yields out of a set of answers: an HTTPError, or a page whose
\* headers are in and whose body is still to be read.
HeadsOf(answers) == {Response(r.http, r.setCookie, Unread) : r \in answers}

\* The bodies a read of the page may then return: those of the answers that
\* begin with the headers received.
BodiesAfter(answers, head) ==
    {r.body : r \in {x \in answers :
                       x.http = head.http /\ x.setCookie = head.setCookie}}

\* What urlopen yields for the login request.
LoginHeads == HeadsOf(LoginResponses)

\* A method's Set-Cookie header, when it sends one: a second key.
Renewal == Header(<< <<CookieNames[1], MaxSid>> >>)

MethodBodies ==
    {NotJSON,
     Json([collections |-> "c1"]),
     Json([exc |-> "PackageDBError", tg_flash |-> "no such package"]),
     Json([exc |-> "PackageDBError"]),
     Json([logging_in |-> "true"]),
     Json([logging_in |-> "true", message |-> "please log in"]),
     Json([exc |-> "IdentityFailure", tg_flash |-> "expired", logging_in |-> "true"])}

\* The answers of the server to a method request.
MethodResponses ==
    {HttpError("Forbidden"), HttpError("Internal Server Error")}
    \cup {Response("OK", NoHeader, b) : b \in MethodBodies}
    \cup {Response("OK", Renewal, b) : b \in
            {NotJSON, Json([collections |-> "c1"]),
             Json([exc |-> "PackageDBError", tg_flash |-> "no such package"])}}

\* What urlopen yields for a method request.
MethodHeads == HeadsOf(MethodResponses)

(* ------------------------------ outcomes ------------------------------- *)

\* How a call ends: still running, a return value, or a raised exception
\* with what it carries.
Running == [kind |-> "running", exc |-> "", value |-> <<>>]
Return(v) == [kind |-> "return", exc |-> "", value |-> v]
Raise(exc, args) == [kind |-> "raise", exc |-> exc, value |-> args]

(* ------------------------------- state --------------------------------- *)

VARIABLES
    constructed,    \* a BaseClient object exists (its __init__ returned)
    username,       \* self.username
    password,       \* self.password
    sessionCookie,  \* self._sessionCookie
    sessionFile,    \* SESSION_FILE on disk
    frame,          \* the top-level call in progress (or the last one) and where it waits
    events,         \* the urlopen calls of that top-level call, with the answers
    result,         \* how that top-level call ended
    before,         \* sessionCookie and sessionFile when that call started
    saved,          \* the last _save_session: its user, cookie, the record it read
    prev,           \* the call before it: its operation, arguments and end
    calls,          \* top-level calls started so far
    faults,         \* write halves that failed and arrivals of the other file, so far
    race,           \* two processes inside _save_session, step by step
    pkgdb           \* a PackageDB client's branch cache and its _get_branches call

vars == <<constructed, username, password, sessionCookie, sessionFile,
          frame, events, result, before, saved, prev, calls, faults, race, pkgdb>>

\* The running computation, threaded through the operators below.
\*   stack: code objects of the Python frames, caller first
\*   pc:    "idle", or what is being waited on: the urlopen of "login" or
\*          of "request", the login "page" that simplejson.load reads, or
\*          the "body" that response.read() reads
\*   why:   who called _authenticate: "direct" (the caller or __init__),
\*          "session" (send_request's self.session), "reauth" (force=True
\*          after a stale-session signal)
Frame(op, stack, force, method, auth, reqParams) ==
    [op |-> op, stack |-> stack, pc |-> "idle", why |-> "none", force |-> force,
     method |-> method, auth |-> auth, reqParams |-> reqParams, useragent |-> TRUE]

NoFrame == Frame("none", <<>>, FALSE, <<>>, FALSE, None)

Ctx(u, p, c, f, fr, ev) ==
    [username |-> u, password |-> p, cookie |-> c, file |-> f,
     frame |-> fr, events |-> ev, saved |-> saved, faults |-> faults, out |-> Running]

Here == Ctx(username, password, sessionCookie, sessionFile, frame, events)

\* The record a file holds: what pickle.load yields, nothing if it raises
\* or there is no file.
RecordOf(file) ==
    IF file.isfile /\ pickle_load(file.content).exc = ""
    THEN pickle_load(file.content).value
    ELSE <<>>

\* What is remembered of a _save_session that ran to its end: whether every
\* write step succeeded, the entry it set, and the record it started from.
NotSaved == [written |-> FALSE, username |-> None, cookie |-> NoneCookie, record |-> <<>>]
Saved(file, u, c, w) ==
    [written |-> Written(w), username |-> u, cookie |-> c, record |-> RecordOf(file)]

Finish(s, out) == [s EXCEPT !.out = out, !.frame.pc = "idle"]

\* An urlopen call: kind "login" or "request", the Cookie header sent, and
\* the answer once it has arrived.
Event(s, kind, why, cookie) ==
    [kind |-> kind, why |-> why, depth |-> Len(s.frame.stack),
     method |-> s.frame.method, auth |-> s.frame.auth,
     reqParams |-> s.frame.reqParams, cookie |-> cookie, resp |-> Pending]

Answered(ev, resp) == [ev EXCEPT ![Len(ev)].resp = resp]
BodyRead(ev, body) == [ev EXCEPT ![Len(ev)].resp.body = body]

(* ---------------------------- _authenticate ---------------------------- *)

\* Faulty variant: only the password is checked before the login request.
AuthStart_NoUsernameCheck(s, force, why) ==
    IF ~force /\ CookieTruthy(s.cookie) THEN Finish(s, Return(s.cookie))
    ELSE IF ~Truthy(s.password)
    THEN Finish(s, Raise("AuthError", [message |-> "password must be set"]))
    ELSE [s EXCEPT !.frame.pc = "login", !.frame.why = why,
                   !.events = Append(@, Event(s, "login", why,
                       IF CookieTruthy(s.cookie)
                       THEN Header(SimpleCookie_output(s.cookie))
                       ELSE NoHeader))]

\* Faulty variant: the cached cookie is not consulted; every call logs in.
AuthStart_NoCache(s, force, why) ==
    IF ~Truthy(s.username)
    THEN Finish(s, Raise("AuthError", [message |-> "username must be set"]))
    ELSE IF ~Truthy(s.password)
    THEN Finish(s, Raise("AuthError", [message |-> "password must be set"]))
    ELSE [s EXCEPT !.frame.pc = "login", !.frame.why = why,
                   !.events = Append(@, Event(s, "login", why, NoHeader))]

\* Faulty variant: the identity is not checked before the login request is built.
AuthStart_NoIdentityCheck(s, force, why) ==
    IF ~force /\ CookieTruthy(s.cookie) THEN Finish(s, Return(s.cookie))
    ELSE [s EXCEPT !.frame.pc = "login", !.frame.why = why,
                   !.events = Append(@, Event(s, "login", why, NoHeader))]

\* _authenticate up to urllib2.urlopen(req): the cache check, the identity
\* checks, and the login request with the old cookie attached if there is one.
AuthStart(s, force, why) ==
    IF ~force /\ CookieTruthy(s.cookie) THEN Finish(s, Return(s.cookie))
    ELSE IF ~Truthy(s.username)
    THEN Finish(s, Raise("AuthError", [message |-> "username must be set"]))
    ELSE IF ~Truthy(s.password)
    THEN Finish(s, Raise("AuthError", [message |-> "password must be set"]))
    ELSE [s EXCEPT !.frame.pc = "login", !.frame.why = why,
                   !.events = Append(@, Event(s, "login", why,
                       IF CookieTruthy(s.cookie)
                       THEN Header(SimpleCookie_output(s.cookie))
                       ELSE NoHeader))]

\* _authenticate from the return of urlopen: Forbidden raises AuthError,
\* any other HTTP error is re-raised, and a page has its body read by
\* simplejson.load(loginPage).
AuthHeaders(s, resp) ==
    IF resp.http = "Forbidden"
    THEN Finish(s, Raise("AuthError", [message |-> "Invalid username/password"]))
    ELSE IF resp.http # "OK"
    THEN Finish(s, Raise("HTTPError", [msg |-> resp.http]))
    ELSE [s EXCEPT !.frame.pc = "page"]

\* Faulty variant: the session is saved as soon as the page is decoded, before
\* the message key and the Set-Cookie header are looked at.
AuthFinish_SaveFirst(s, resp, w) ==
    IF ~resp.body.json
    THEN Finish(s, Raise("ValueError", [message |-> "No JSON object could be decoded"]))
    ELSE LET early == _save_session(s.file, s.username, s.cookie, w).file
         IN  IF "message" \in DOMAIN resp.body.obj
             THEN Finish([s EXCEPT !.file = early],
                         Raise("AuthError", [message |-> resp.body.obj["message"]]))
             ELSE IF ~resp.setCookie.present
             THEN Finish([s EXCEPT !.cookie = NoneCookie, !.file = early],
                         Raise("AuthError",
                               [message |-> "Server did not send back a cookie"]))
             ELSE LET c  == SimpleCookie_load(SimpleCookie, resp.setCookie.pairs)
                      sv == _save_session(s.file, s.username, c, w)
                      s1 == [s EXCEPT !.cookie = c, !.file = sv.file]
                  IN  IF sv.exc # ""
                      THEN Finish(s1, Raise(sv.exc, [message |-> "session file"]))
                      ELSE Finish([s1 EXCEPT !.saved = Saved(s.file, s.username, c, w),
                                        !.faults = IF w = WriteOK THEN @ ELSE @ + 1],
                                  Return(c))

\* _authenticate from the return of simplejson.load(loginPage) to its end:
\* the JSON body, the message key, the Set-Cookie header, _save_session.
AuthFinish(s, resp, w) ==
    IF ~resp.body.json
    THEN Finish(s, Raise("ValueError", [message |-> "No JSON object could be decoded"]))
    ELSE IF "message" \in DOMAIN resp.body.obj
    THEN Finish(s, Raise("AuthError", [message |-> resp.body.obj["message"]]))
    ELSE IF ~resp.setCookie.present
    THEN Finish([s EXCEPT !.cookie = NoneCookie],
                Raise("AuthError", [message |-> "Server did not send back a cookie"]))
    ELSE LET c  == SimpleCookie_load(SimpleCookie, resp.setCookie.pairs)
             sv == _save_session(s.file, s.username, c, w)
             s1 == [s EXCEPT !.cookie = c, !.file = sv.file]
         IN  IF sv.exc # ""
             THEN Finish(s1, Raise(sv.exc, [message |-> "session file"]))
             ELSE Finish([s1 EXCEPT !.saved = Saved(s.file, s.username, c, w),
                                        !.faults = IF w = WriteOK THEN @ ELSE @ + 1],
                         Return(c))

(* ----------------------------- send_request --------------------------- *)

\* method.lstrip('/'): a method path is the sequence of its segments, each
\* leading "/" a segment of its own.
RECURSIVE lstrip(_)
lstrip(method) ==
    IF method # <<>> /\ Head(method) = "/" THEN lstrip(Tail(method)) ELSE method

\* inspect.currentframe().f_back.f_code != inspect.currentframe().f_code:
\* the caller of this send_request frame is not send_request itself.
CallerIsNotSelf(s) ==
    LET n == Len(s.frame.stack)
    IN  s.frame.stack[n - 1] # s.frame.stack[n]

\* AppError(name = ..., message = ...): AppError is a bare subclass of
\* Exception (class AppError(FedoraServiceError): pass), and Exception takes
\* no keyword arguments, so the constructor call raises TypeError.
AppError(name, message) ==
    Raise("TypeError", [message |-> "AppError does not take keyword arguments"])

\* urllib2.urlopen(req) for the method: the request goes out.
SendIssue(s, cookieHeader) ==
    [s EXCEPT !.frame.pc = "request", !.frame.why = "none", !.out = Running,
              !.events = Append(@, Event(s, "request",
                  IF CallerIsNotSelf(s) THEN "first" ELSE "replay", cookieHeader))]

\* Faulty variant: the Cookie header is taken from self.session whatever auth is.
SendStart_AlwaysSession(s) ==
    LET s0 == [s EXCEPT !.frame.method = lstrip(@), !.out = Running]
        a  == AuthStart(s0, FALSE, "session")
    IN  IF a.out.kind = "return"
        THEN SendIssue(a, Header(SimpleCookie_output(a.out.value)))
        ELSE a

\* send_request up to urllib2.urlopen(req): the URL, the Cookie header from
\* self.session when auth is set, else from the cookie in memory if any.
SendStart(s) ==
    LET s0 == [s EXCEPT !.frame.method = lstrip(@), !.out = Running]
    IN  IF s0.frame.auth
        THEN LET a == AuthStart(s0, FALSE, "session")
             IN  IF a.out.kind = "return"
                 THEN SendIssue(a, Header(SimpleCookie_output(a.out.value)))
                 ELSE a
        ELSE IF CookieTruthy(s0.cookie)
        THEN SendIssue(s0, Header(SimpleCookie_output(s0.cookie)))
        ELSE SendIssue(s0, NoHeader)

\* self._sessionCookie.load(response.headers['set-cookie']) under
\* except (KeyError, AttributeError): nothing happens without the header
\* (KeyError) or when self._sessionCookie is None (AttributeError).
Renew(s, resp) ==
    IF resp.setCookie.present /\ ~s.cookie.isNone
    THEN [s EXCEPT !.cookie = SimpleCookie_load(s.cookie, resp.setCookie.pairs)]
    ELSE s

\* The stale-session branch for a logging_in payload: force a login when the
\* caller is not send_request, else raise AuthError with the message
\* formatted from the payload ('%(message)s' % data: KeyError without it).
StaleSession(s, data) ==
    IF CallerIsNotSelf(s) THEN AuthStart(s, TRUE, "reauth")
    ELSE IF "message" \in DOMAIN data
    THEN Finish(s, Raise("AuthError", [message |-> data["message"]]))
    ELSE Finish(s, Raise("KeyError", [message |-> "message"]))

\* Faulty variant: every HTTP error is taken for a stale session.
OnHTTPError_AnyIsForbidden(s, resp) ==
    IF CallerIsNotSelf(s) THEN AuthStart(s, TRUE, "reauth")
    ELSE Finish(s, Raise("AuthError", [message |-> resp.http]))

\* except urllib2.HTTPError, e: Forbidden forces a login when the caller is
\* not send_request and raises AuthError otherwise; any other error is
\* re-raised.
OnHTTPError(s, resp) ==
    IF resp.http = "Forbidden"
    THEN IF CallerIsNotSelf(s) THEN AuthStart(s, TRUE, "reauth")
         ELSE Finish(s, Raise("AuthError", [message |-> resp.http]))
    ELSE Finish(s, Raise("HTTPError", [msg |-> resp.http]))

\* The decoded payload: exc raises the application error, logging_in is the
\* stale-session signal, anything else is the result.
OnPayload(s, data) ==
    IF "exc" \in DOMAIN data
    THEN IF "tg_flash" \in DOMAIN data
         THEN Finish(s, AppError(data["exc"], data["tg_flash"]))
         ELSE Finish(s, Raise("KeyError", [message |-> "tg_flash"]))
    ELSE IF "logging_in" \in DOMAIN data THEN StaleSession(s, data)
    ELSE Finish(s, Return(data))

\* Faulty variant: the Set-Cookie header is left alone when the headers
\* arrive.
SendHeaders_NoRenew(s, resp) ==
    IF resp.http # "OK" THEN OnHTTPError(s, resp)
    ELSE [s EXCEPT !.frame.pc = "body"]

\* send_request from the return of urlopen: the HTTP error branch, or the
\* cookie renewal, after which response.read() waits for the body.
SendHeaders(s, resp) ==
    IF resp.http # "OK" THEN OnHTTPError(s, resp)
    ELSE [Renew(s, resp) EXCEPT !.frame.pc = "body"]

\* Faulty variant: a body that is no JSON is handed back as an empty result.
SendBody_NoDecodeCheck(s, body) ==
    IF ~body.json THEN Finish(s, Return(<<>>))
    ELSE OnPayload(s, body.obj)

\* send_request from the return of response.read(): the JSON decoding, the
\* payload.
SendBody(s, body) ==
    IF ~body.json
    THEN Finish(s, Raise("ServerError",
                         [message |-> "No JSON object could be decoded"]))
    ELSE OnPayload(s, body.obj)

\* Where a finished _authenticate returns to: its caller ("direct"), the
\* Cookie header of the request being built ("session"), or the replay
\* self.send_request(method, auth, reqParams) ("reauth").  The replay's
\* result or exception passes through the first frame unchanged.
AfterLogin(a) ==
    IF a.out.kind # "return" \/ a.frame.why = "direct" THEN a
    ELSE IF a.frame.why = "session"
    THEN SendIssue(a, Header(SimpleCookie_output(a.out.value)))
    ELSE SendStart([a EXCEPT !.frame.stack = Append(@, "send_request")])

\* Faulty variant: the first frame drops what the replay returned.
ReplayResult_Drop(out) ==
    IF out.kind = "return" THEN Return(<<>>) ELSE out

\* return self.send_request(method, auth, reqParams), and
\* data = self.send_request(...); return data: the first frame hands on
\* what the replay returned or raised.
ReplayResult(out) == out

\* The end of the body of the top-level call: a replay's end goes through
\* the first send_request frame.
Unwind(s) ==
    IF s.out.kind # "running" /\ ~CallerIsNotSelf(s)
    THEN ReplayResult(s.out)
    ELSE s.out

\* Faulty variant: logout has no except AuthError clause.
TopResult_NoSwallow(op, out) ==
    IF out.kind = "running" THEN out
    ELSE IF op \in {"logout", "__init__"} /\ out.kind = "return" THEN Return(<<>>)
    ELSE out

\* What the top-level operation makes of how its body ended: logout
\* swallows AuthError and returns None, __init__ returns None.
TopResult(op, out) ==
    IF out.kind = "running" THEN out
    ELSE IF op = "logout"
    THEN IF out.kind = "return" \/ out.exc = "AuthError" THEN Return(<<>>) ELSE out
    ELSE IF op = "__init__" /\ out.kind = "return" THEN Return(<<>>)
    ELSE out

(* ------------------------------ actions -------------------------------- *)

Usernames == {None, "alice"}
Passwords == {None, "pw"}

\* The calls a subclass makes: a method path with its parameters.
Requests ==
    {[method |-> <<"/", "collections">>, reqParams |-> None],
     [method |-> <<"acls">>, reqParams |-> "pkg=foo"]}

\* A cookie as a login leaves it: one tg-visit value.
Visit(v) == SimpleCookie_load(SimpleCookie, << <<CookieNames[2], v>> >>)

OnDisk(mode, content) ==
    [isfile |-> TRUE, readable |-> TRUE, mode |-> mode, content |-> content]

\* The session file a client process may find: none, one it may not read,
\* an empty, truncated or corrupt one, and records of earlier logins.
InitFiles ==
    {NoFile,
     OtherFile,
     OnDisk("0644", <<>>),
     OnDisk("0644", <<Tok("junk")>>),
     OnDisk(OwnerOnly, pickle_dump([bob |-> Visit(1)])),
     OnDisk("0644", pickle_dump([alice |-> Visit(1), bob |-> Visit(MaxSid)]))}

\* The file is as it was found, or the other process's by now.  (This
\* client cannot produce the other process's file: what it writes, it can
\* read.)
LeftAlone(found, file) == file = found \/ file = OtherFile

\* What is remembered of the call before the current one: whether it was
\* _authenticate(force=False) on a cookie held in memory, and then how it
\* ended, the urlopen calls it made and whether it left cookie and file alone.
NoSummary ==
    [cachedAuth |-> FALSE, out |-> Running, urlopens |-> 0, same |-> TRUE]

Summary ==
    IF frame.op = "_authenticate" /\ ~frame.force /\ CookieTruthy(before.cookie)
    THEN [cachedAuth |-> TRUE, out |-> result, urlopens |-> Len(events),
          same |-> before.cookie = sessionCookie /\ LeftAlone(before.file, sessionFile)]
    ELSE NoSummary

\* No process is inside _save_session step by step: a client's save is one
\* step of its login.
NoRace == [p |-> <<>>, last |-> 0, first |-> <<>>]

\* A PackageDB client's self._branches (None until a fetch assigns it), the
\* refresh argument of its last _get_branches call, whether send_request has
\* returned the collections to a _get_branches call, and whether it had
\* before the last call began.
NoPkgdb ==
    [branches |-> None, refresh |-> FALSE, fetched |-> FALSE, hadFetched |-> FALSE]

Init ==
    /\ constructed = FALSE
    /\ username = None
    /\ password = None
    /\ sessionCookie = NoneCookie
    /\ sessionFile \in InitFiles
    /\ frame = NoFrame
    /\ events = <<>>
    /\ result = Running
    /\ before = [cookie |-> NoneCookie, file |-> sessionFile]
    /\ saved = NotSaved
    /\ prev = NoSummary
    /\ calls = 0
    /\ faults = 0
    /\ race = NoRace
    /\ pkgdb = NoPkgdb

\* A top-level call starts: none is in progress.
Begin ==
    /\ frame.pc = "idle"
    /\ calls < MaxCalls
    /\ calls' = calls + 1
    /\ prev' = Summary

\* The computation's state becomes the program's.
Commit(s) ==
    /\ sessionCookie' = s.cookie
    /\ sessionFile' = s.file
    /\ frame' = s.frame
    /\ events' = s.events
    /\ saved' = s.saved
    /\ result' = TopResult(s.frame.op, Unwind(s))

\* BaseClient(baseURL, username, password, useragent): the fields, the
\* default user agent (release.VERSION, a name the module never binds),
\* _load_session, and the forced login when both username and password
\* are given.
Construct(u, p, useragent) ==
    /\ Begin
    /\ before' = [cookie |-> NoneCookie, file |-> sessionFile]
    /\ LET fr == Frame("__init__", <<"caller", "__init__">>, TRUE, <<>>, FALSE, None)
           ld == _load_session(sessionFile, u, NoneCookie)
           s0 == Ctx(u, p, ld.cookie, sessionFile, fr, <<>>)
           s1 == IF ~useragent
                 THEN Finish([s0 EXCEPT !.cookie = NoneCookie,
                                        !.frame.useragent = FALSE],
                             Raise("NameError", [message |-> "release"]))
                 ELSE IF ld.exc # ""
                 THEN Finish(s0, Raise(ld.exc, [message |-> "session file"]))
                 ELSE IF Truthy(u) /\ Truthy(p) THEN AuthStart(s0, TRUE, "direct")
                 ELSE Finish(s0, Return(<<>>))
       IN  /\ Commit(s1)
           /\ username' = u
           /\ password' = p
           /\ constructed' = (s1.out.kind = "return")
    /\ UNCHANGED <<faults, race, pkgdb>>

\* client._authenticate(force), or client.session (force = False).
CallAuthenticate(force) ==
    /\ Begin
    /\ constructed
    /\ before' = [cookie |-> sessionCookie, file |-> sessionFile]
    /\ LET fr == Frame("_authenticate", <<"caller", "_authenticate">>, force,
                       <<>>, FALSE, None)
       IN  Commit(AuthStart(Ctx(username, password, sessionCookie, sessionFile,
                                fr, <<>>), force, "direct"))
    /\ UNCHANGED <<constructed, username, password, faults, race, pkgdb>>

\* client.send_request(method, auth, reqParams), called by a method of a
\* subclass or by the user.
CallSendRequest(rq, auth) ==
    /\ Begin
    /\ constructed
    /\ before' = [cookie |-> sessionCookie, file |-> sessionFile]
    /\ LET fr == Frame("send_request", <<"caller", "send_request">>, FALSE,
                       rq.method, auth, rq.reqParams)
       IN  Commit(SendStart(Ctx(username, password, sessionCookie, sessionFile,
                                fr, <<>>)))
    /\ UNCHANGED <<constructed, username, password, faults, race, pkgdb>>

\* client.logout(): self.send_request('logout', auth=True) under
\* except AuthError: pass.
CallLogout ==
    /\ Begin
    /\ constructed
    /\ before' = [cookie |-> sessionCookie, file |-> sessionFile]
    /\ LET fr == Frame("logout", <<"caller", "logout", "send_request">>, FALSE,
                       <<"logout">>, TRUE, None)
       IN  Commit(SendStart(Ctx(username, password, sessionCookie, sessionFile,
                                fr, <<>>)))
    /\ UNCHANGED <<constructed, username, password, faults, race, pkgdb>>

\* Another process puts its own session file in place, at any moment: between
\* two calls of this client, or while one of them waits on urlopen or on the
\* body of the page.
OtherProcessOwnsFile ==
    /\ sessionFile = OtherFile \/ faults < MaxFaults
    /\ sessionFile' = OtherFile
    /\ faults' = IF sessionFile = OtherFile THEN faults ELSE faults + 1
    /\ UNCHANGED <<constructed, username, password, sessionCookie, frame,
                   events, result, before, saved, prev, calls, race, pkgdb>>

\* How the write half of the save at hand may go: every save meets the
\* disk anew, and the other process's file may arrive inside it unless it
\* is there already.  Once MaxFaults of these have happened, the write
\* halves go through.
WritesNow ==
    IF faults < MaxFaults
    THEN WriteFaults \cup (IF sessionFile.readable THEN Taken ELSE {})
    ELSE {WriteOK}

\* urlopen returns for the login request, the headers are in: an HTTP error
\* ends _authenticate and goes to its caller; with a page the call goes on
\* to wait in simplejson.load(loginPage).
LoginHeaders(resp) ==
    /\ frame.pc = "login"
    /\ LET s == AfterLogin(AuthHeaders([Here EXCEPT !.events = Answered(@, resp)],
                                       resp))
       IN  /\ Commit(s)
           /\ constructed' = IF frame.op = "__init__" THEN s.out.kind = "return"
                             ELSE constructed
    /\ UNCHANGED <<username, password, before, prev, calls, faults, race, pkgdb>>

\* simplejson.load(loginPage) returns the body of the login page: the rest
\* of _authenticate, then its caller.
LoginBody(body) ==
    /\ frame.pc = "page"
    /\ body \in BodiesAfter(LoginResponses, events[Len(events)].resp)
    /\ \E w \in WritesNow :
         LET s0 == [Here EXCEPT !.events = BodyRead(@, body)]
             s  == AfterLogin(AuthFinish(s0, s0.events[Len(s0.events)].resp, w))
         IN  /\ Commit(s)
             /\ faults' = s.faults
             /\ constructed' = IF frame.op = "__init__" THEN s.out.kind = "return"
                               ELSE constructed
    /\ UNCHANGED <<username, password, before, prev, calls, race, pkgdb>>

\* urlopen returns for the method, the headers are in: the HTTP error
\* branch ends the wait; a page has its Set-Cookie header loaded and the
\* call goes on to wait in response.read().
MethodHeaders(resp) ==
    /\ frame.op # "_get_branches"
    /\ frame.pc = "request"
    /\ Commit(SendHeaders([Here EXCEPT !.events = Answered(@, resp)], resp))
    /\ UNCHANGED <<constructed, username, password, before, prev, calls, faults, race, pkgdb>>

\* response.read() returns the body: the rest of send_request.
MethodBody(body) ==
    /\ frame.op # "_get_branches"
    /\ frame.pc = "body"
    /\ body \in BodiesAfter(MethodResponses, events[Len(events)].resp)
    /\ Commit(SendBody([Here EXCEPT !.events = BodyRead(@, body)], body))
    /\ UNCHANGED <<constructed, username, password, before, prev, calls, faults, race, pkgdb>>

Next ==
    \/ \E u \in Usernames, p \in Passwords, ua \in BOOLEAN : Construct(u, p, ua)
    \/ \E force \in BOOLEAN : CallAuthenticate(force)
    \/ \E rq \in Requests, auth \in BOOLEAN : CallSendRequest(rq, auth)
    \/ CallLogout
    \/ OtherProcessOwnsFile
    \/ \E resp \in LoginHeads : LoginHeaders(resp)
    \/ \E body \in LoginBodies : LoginBody(body)
    \/ \E resp \in MethodHeads : MethodHeaders(resp)
    \/ \E body \in MethodBodies : MethodBody(body)

Spec == Init /\ [][Next]_vars


(* ------------------ two processes in _save_session --------------------- *)

\* A second specification: two client processes, logged in as different
\* users, run _save_session on the same SESSION_FILE with no lock.  Each
\* system call on the file is one step, and the steps of the two interleave.

\* The users of the two processes.
RaceUsers == <<"alice", "bob">>

\* The session file the two processes find.
RaceFiles == {f \in InitFiles : f.readable}

\* Faulty variant: the bytes are appended to what the file holds.
WriteAt_Append(file, bytes) ==
    [file EXCEPT !.content = @ \o bytes]

\* pickle.dump(save, sessionFile); sessionFile.close(): the bytes go to the
\* start of the file through this process's descriptor; bytes another
\* process wrote beyond them stay.
WriteAt(file, bytes) ==
    [file EXCEPT !.content = bytes \o SubSeq(@, Len(bytes) + 1, Len(@))]

\* A process about to call _save_session with its user's new cookie.
RaceProc(u, c) == [pc |-> "start", username |-> u, cookie |-> c, save |-> <<>>]

RaceInit ==
    /\ sessionFile \in RaceFiles
    /\ \E c1, c2 \in 1..MaxSid :
          race = [p |-> <<RaceProc(RaceUsers[1], Visit(c1)),
                          RaceProc(RaceUsers[2], Visit(c2))>>,
                  last |-> 0,
                  first |-> RecordOf(sessionFile)]
    /\ constructed = FALSE
    /\ username = None
    /\ password = None
    /\ sessionCookie = NoneCookie
    /\ frame = NoFrame
    /\ events = <<>>
    /\ result = Running
    /\ before = [cookie |-> NoneCookie, file |-> sessionFile]
    /\ saved = NotSaved
    /\ prev = NoSummary
    /\ calls = 0
    /\ faults = 0
    /\ pkgdb = NoPkgdb

\* Everything but the file and the two processes.
clientVars == <<constructed, username, password, sessionCookie, frame,
                events, result, before, saved, prev, calls, faults, pkgdb>>

\* save = {}; pickle.load of the file if there is one; save[self.username] =
\* self._sessionCookie.
RaceRead(i) ==
    /\ race.p[i].pc = "start"
    /\ race' = [race EXCEPT
                  !.p[i].pc = "read",
                  !.p[i].save = SaveRecord(sessionFile, race.p[i].username,
                                           race.p[i].cookie)]
    /\ UNCHANGED sessionFile
    /\ UNCHANGED clientVars

\* sessionFile = file(SESSION_FILE, 'w')
RaceOpen(i) ==
    /\ race.p[i].pc = "read"
    /\ race' = [race EXCEPT !.p[i].pc = "opened"]
    /\ sessionFile' = OpenForWrite(sessionFile)
    /\ UNCHANGED clientVars

\* os.chmod(SESSION_FILE, stat.S_IRUSR | stat.S_IWUSR)
RaceChmod(i) ==
    /\ race.p[i].pc = "opened"
    /\ race' = [race EXCEPT !.p[i].pc = "chmodded"]
    /\ sessionFile' = [sessionFile EXCEPT !.mode = OwnerOnly]
    /\ UNCHANGED clientVars

\* pickle.dump(save, sessionFile); sessionFile.close()
RaceDump(i) ==
    /\ race.p[i].pc = "chmodded"
    /\ race' = [race EXCEPT !.p[i].pc = "done", !.last = i]
    /\ sessionFile' = WriteAt(sessionFile, pickle_dump(race.p[i].save))
    /\ UNCHANGED clientVars

RaceNext ==
    \E i \in DOMAIN RaceUsers :
        \/ RaceRead(i)
        \/ RaceOpen(i)
        \/ RaceChmod(i)
        \/ RaceDump(i)

SpecRace == RaceInit /\ [][RaceNext]_vars

(* --------------------- PackageDB._get_branches ------------------------- *)

\* A third specification: one PackageDB client (src/fedora/client/pkgdb.py),
\* a BaseClient with a branch cache.  Its _get_branches calls send_request
\* as any method of a subclass does, and reads the answer as data.collections.

\* bool(self._branches): None is false.
BranchesTruthy(b) == Truthy(b)

\* PackageDB(base_url, username=..., password=...) has returned: __init__
\* always passes a useragent on, and sets self._branches = None.  The client
\* has no identity, or only a username and the cookie _load_session found
\* for it, or both credentials and the cookie of the forced login, saved.
PackageDBClients ==
    {[username |-> None, password |-> None, cookie |-> NoneCookie, file |-> NoFile],
     [username |-> "alice", password |-> None, cookie |-> Visit(1),
      file |-> OnDisk("0644", pickle_dump([alice |-> Visit(1), bob |-> Visit(MaxSid)]))],
     [username |-> "alice", password |-> "pw", cookie |-> Visit(1),
      file |-> OnDisk(OwnerOnly, pickle_dump([alice |-> Visit(1)]))]}

BranchInit ==
    /\ \E c \in PackageDBClients :
         /\ username = c.username
         /\ password = c.password
         /\ sessionCookie = c.cookie
         /\ sessionFile = c.file
         /\ before = [cookie |-> c.cookie, file |-> c.file]
    /\ constructed = TRUE
    /\ pkgdb = NoPkgdb
    /\ race = NoRace
    /\ frame = NoFrame
    /\ events = <<>>
    /\ result = Running
    /\ saved = NotSaved
    /\ prev = NoSummary
    /\ calls = 0
    /\ faults = 0

\* What _get_branches makes of how send_request ended: an exception passes
\* through; the data it returns is a dict, and data.collections raises
\* AttributeError before self._branches is assigned.
BranchesResult(out) ==
    IF out.kind = "return"
    THEN Raise("AttributeError",
               [message |-> "'dict' object has no attribute 'collections'"])
    ELSE out

\* client._get_branches(refresh), or client.branches (refresh = False), up
\* to urlopen: the cached branches if they are true and no refresh is asked
\* for, else self.send_request('/collections/').
_get_branches(refresh) ==
    /\ Begin
    /\ constructed
    /\ before' = [cookie |-> sessionCookie, file |-> sessionFile]
    /\ pkgdb' = [pkgdb EXCEPT !.refresh = refresh, !.hadFetched = pkgdb.fetched]
    /\ LET fr == Frame("_get_branches",
                       <<"caller", "_get_branches", "send_request">>, FALSE,
                       <<"/", "collections/">>, FALSE, None)
           s0 == Ctx(username, password, sessionCookie, sessionFile, fr, <<>>)
       IN  IF BranchesTruthy(pkgdb.branches) /\ ~refresh
           THEN Commit(Finish(s0, Return(pkgdb.branches)))
           ELSE Commit(SendStart(s0))
    /\ UNCHANGED <<constructed, username, password, faults, race>>

\* The state of the computation becomes the program's, _get_branches
\* standing between send_request and the caller.
BranchCommit(s) ==
    /\ sessionCookie' = s.cookie
    /\ sessionFile' = s.file
    /\ frame' = s.frame
    /\ events' = s.events
    /\ saved' = s.saved
    /\ result' = BranchesResult(Unwind(s))
    /\ pkgdb' = [pkgdb EXCEPT !.fetched = @ \/ Unwind(s).kind = "return"]

\* urlopen returns for /collections/, the headers are in: send_request up
\* to response.read(), or its HTTP error branch and then the rest of
\* _get_branches.
CollectionsHeaders(resp) ==
    /\ frame.op = "_get_branches"
    /\ frame.pc = "request"
    /\ BranchCommit(SendHeaders([Here EXCEPT !.events = Answered(@, resp)], resp))
    /\ UNCHANGED <<constructed, username, password, before, prev, calls, faults, race>>

\* response.read() returns the body of /collections/: the rest of
\* send_request, then the rest of _get_branches.
CollectionsBody(body) ==
    /\ frame.op = "_get_branches"
    /\ frame.pc = "body"
    /\ body \in BodiesAfter(MethodResponses, events[Len(events)].resp)
    /\ BranchCommit(SendBody([Here EXCEPT !.events = BodyRead(@, body)], body))
    /\ UNCHANGED <<constructed, username, password, before, prev, calls, faults, race>>

BranchNext ==
    \/ \E refresh \in BOOLEAN : _get_branches(refresh)
    \/ \E resp \in LoginHeads : LoginHeaders(resp)
    \/ \E body \in LoginBodies : LoginBody(body)
    \/ \E resp \in MethodHeads : CollectionsHeaders(resp)
    \/ \E body \in MethodBodies : CollectionsBody(body)

SpecBranches == BranchInit /\ [][BranchNext]_vars

(* ------------------------------- claims -------------------------------- *)

\* The top-level call has ended.
Done == frame.op # "none" /\ frame.pc = "idle"

\* The urlopen calls of the call, by kind.
LoginEvents == SelectSeq(events, LAMBDA e : e.kind = "login")
RequestEvents == SelectSeq(events, LAMBDA e : e.kind = "request")
ForcedLogins == SelectSeq(events, LAMBDA e : e.kind = "login" /\ e.why = "reauth")

\* The two stale-session signals: HTTP Forbidden, and a payload with
\* logging_in (and no exc, which would make it an application error).
IsStale(resp) ==
    \/ resp.http = "Forbidden"
    \/ /\ resp.http = "OK"
       /\ resp.body.json
       /\ "logging_in" \in DOMAIN resp.body.obj
       /\ "exc" \notin DOMAIN resp.body.obj

\* A normal payload: JSON without exc and without logging_in.
IsNormal(resp) ==
    /\ resp.http = "OK"
    /\ resp.body.json
    /\ "exc" \notin DOMAIN resp.body.obj
    /\ "logging_in" \notin DOMAIN resp.body.obj

\* A login page that passes every check of _authenticate.
IsGoodLogin(resp) ==
    /\ resp.http = "OK"
    /\ resp.body.json
    /\ "message" \notin DOMAIN resp.body.obj
    /\ resp.setCookie.present

\* C1: a send_request whose method requests are all answered with Forbidden
\* or a logging_in payload makes at most one forced login and one replay and
\* ends by raising AuthError.  Stated for the calls that end on the answer
\* of a method request (a login exchange that fails ends the call itself).
C1_RetryBound ==
    (/\ Done
     /\ frame.op = "send_request"
     /\ events # <<>>
     /\ events[Len(events)].kind = "request"
     /\ \A i \in DOMAIN RequestEvents : IsStale(RequestEvents[i].resp))
    => /\ Len(ForcedLogins) <= 1
       /\ Len(RequestEvents) <= 2
       /\ result.kind = "raise"
       /\ result.exc = "AuthError"

\* C2: when the first attempt is answered with a stale-session signal, the
\* forced login succeeds and the replay is answered with a normal payload,
\* send_request returns exactly the replay's payload.
C2_TransparentRecovery ==
    (/\ Done
     /\ frame.op = "send_request"
     /\ Len(RequestEvents) = 2
     /\ IsStale(RequestEvents[1].resp)
     /\ IsNormal(RequestEvents[2].resp))
    => /\ result = Return(RequestEvents[2].resp.body.obj)
       /\ Len(ForcedLogins) = 1
       /\ IsGoodLogin(ForcedLogins[1].resp)

\* C2 happens: a Forbidden first attempt was recovered from.
C2_Witness ==
    /\ Done
    /\ frame.op = "send_request"
    /\ Len(RequestEvents) = 2
    /\ RequestEvents[1].resp.http = "Forbidden"
    /\ IsNormal(RequestEvents[2].resp)
    /\ result.kind = "return"

\* C3: with username and password set, _authenticate(force=True) returns a
\* present, non-empty credential or raises AuthError; it never returns an
\* empty or absent credential.  Stated for the logins the server answers
\* with a JSON page (a message payload, a missing Set-Cookie header, a
\* Set-Cookie header that yields no cookie, a cookie).
C3_CredentialOrAuthError ==
    (/\ Done
     /\ frame.op = "_authenticate"
     /\ frame.force
     /\ Truthy(username)
     /\ Truthy(password)
     /\ events[Len(events)].resp.http = "OK"
     /\ events[Len(events)].resp.body.json)
    => \/ result.kind = "return" /\ CookieTruthy(result.value)
       \/ result.kind = "raise" /\ result.exc = "AuthError"

\* C4: with username or password missing, _authenticate(force=True) raises
\* AuthError and issues no login request, whatever cookie is in memory.
C4_MissingIdentity ==
    (/\ frame.op = "_authenticate"
     /\ frame.force
     /\ (~Truthy(username) \/ ~Truthy(password)))
    => /\ frame.pc = "idle"
       /\ events = <<>>
       /\ result.kind = "raise"
       /\ result.exc = "AuthError"

\* C4 happens: a forced login was asked of a client with no password that
\* holds a cookie loaded from the session file.
C4_Witness ==
    /\ Done
    /\ frame.op = "_authenticate"
    /\ frame.force
    /\ ~Truthy(password)
    /\ CookieTruthy(before.cookie)
    /\ result.exc = "AuthError"

\* C5: two consecutive _authenticate(force=False) calls on a valid cookie in
\* memory: the second issues no login request, both return the same
\* credential, neither changes the cookie in memory or the session file.
C5_CacheIdempotent ==
    (/\ frame.op = "_authenticate"
     /\ ~frame.force
     /\ prev.cachedAuth)
    => /\ frame.pc = "idle"
       /\ events = <<>>
       /\ result.kind = "return"
       /\ result = prev.out
       /\ result.value = sessionCookie
       /\ sessionCookie = before.cookie
       /\ LeftAlone(before.file, sessionFile)
       /\ prev.same
       /\ prev.urlopens = 0

\* C5 happens: the second of two such calls has returned.
C5_Witness ==
    /\ Done
    /\ frame.op = "_authenticate"
    /\ ~frame.force
    /\ prev.cachedAuth
    /\ CookieTruthy(result.value)

\* C6: a _save_session for (u, c) whose writes succeed, followed by a
\* _load_session for u, yields c, and the entry of every other username is
\* the same after the save as in the record it read.
C6_SaveLoadRoundTrip ==
    (saved.written /\ sessionFile # OtherFile)
    => /\ \A k \in (DOMAIN saved.record \cup DOMAIN RecordOf(sessionFile))
                   \ {saved.username} :
            /\ k \in DOMAIN saved.record
            /\ k \in DOMAIN RecordOf(sessionFile)
            /\ RecordOf(sessionFile)[k] = saved.record[k]
       /\ (/\ Done
           /\ frame.op = "__init__"
           /\ frame.useragent
           /\ events = <<>>
           /\ username = saved.username)
          => /\ result.kind = "return"
             /\ sessionCookie = saved.cookie

\* C6 happens: a client without password was constructed after a save for
\* its username into a record that held another user's entry, and holds the
\* saved cookie.
C6_Witness ==
    /\ saved.written
    /\ sessionFile # OtherFile
    /\ Done
    /\ frame.op = "__init__"
    /\ events = <<>>
    /\ username = saved.username
    /\ DOMAIN saved.record \ {saved.username} # {}
    /\ CookieTruthy(sessionCookie)

\* C7: _load_session never raises, whatever the session file is, and leaves
\* the cookie in memory absent unless the file is a valid record with an
\* entry for the username.  (A construction that makes no login request has
\* ended in _load_session or right after it.)
C7_LoadNeverRaises ==
    (/\ Done
     /\ frame.op = "__init__"
     /\ frame.useragent
     /\ events = <<>>)
    => /\ result.kind = "return"
       /\ username \notin DOMAIN RecordOf(before.file) => sessionCookie = NoneCookie

\* C8: _save_session never fails its caller: a login page that passes every
\* check makes _authenticate return the new credential, with the cookie in
\* memory set to it, whatever the session file is and however the writes go.
C8_SaveNeverFailsCaller ==
    (/\ Done
     /\ frame.op = "_authenticate"
     /\ events # <<>>
     /\ IsGoodLogin(events[Len(events)].resp))
    => /\ result.kind = "return"
       /\ result.value = sessionCookie
       /\ sessionCookie = SimpleCookie_load(SimpleCookie,
                              events[Len(events)].resp.setCookie.pairs)

\* C9: a payload with an exc key (and its tg_flash) makes send_request fail
\* with AppError carrying the exception name and the flash message.
C9_AppErrorRaised ==
    (/\ Done
     /\ frame.op = "send_request"
     /\ events # <<>>
     /\ events[Len(events)].kind = "request"
     /\ events[Len(events)].resp.http = "OK"
     /\ events[Len(events)].resp.body.json
     /\ "exc" \in DOMAIN events[Len(events)].resp.body.obj
     /\ "tg_flash" \in DOMAIN events[Len(events)].resp.body.obj)
    => result = Raise("AppError",
                      [name |-> events[Len(events)].resp.body.obj["exc"],
                       message |-> events[Len(events)].resp.body.obj["tg_flash"]])

\* C10: an HTTP error other than Forbidden on a method request is the last
\* exchange of the call (no login, no replay follows) and is what the caller
\* gets.
C10_OtherHTTPErrorNotRetried ==
    \A i \in DOMAIN events :
        (/\ events[i].kind = "request"
         /\ events[i].resp.http \notin {"OK", "Forbidden", "pending"})
        => /\ i = Len(events)
           /\ frame.pc = "idle"
           /\ result = Raise("HTTPError", [msg |-> events[i].resp.http])

\* C10 happens: the first attempt of a send_request got such an error, and
\* so did a replay.
C10_Witness ==
    /\ Done
    /\ frame.op = "send_request"
    /\ Len(RequestEvents) = 2
    /\ events[Len(events)].kind = "request"
    /\ events[Len(events)].resp.http = "Internal Server Error"
    /\ result.exc = "HTTPError"

\* The last urlopen call of the top-level call.
LastEvent == events[Len(events)]

\* C11: a send_request with auth=False starts with the method request itself
\* (no login precedes the first attempt); the request carries the cookie held
\* in memory as its Cookie header when there is one and no Cookie header
\* otherwise.
C11_NoLoginWithoutAuth ==
    (frame.op = "send_request" /\ ~frame.auth)
    => /\ events # <<>>
       /\ events[1].kind = "request"
       /\ events[1].why = "first"
       /\ events[1].cookie = IF CookieTruthy(before.cookie)
                             THEN Header(SimpleCookie_output(before.cookie))
                             ELSE NoHeader

\* C11 happens: a client without password, holding a cookie loaded from the
\* session file, has sent a request with auth=False.
C11_Witness ==
    /\ frame.op = "send_request"
    /\ ~frame.auth
    /\ ~Truthy(password)
    /\ CookieTruthy(before.cookie)
    /\ events # <<>>
    /\ events[1].cookie.present

\* A login page that makes _authenticate raise AuthError.
IsRefusedLogin(resp) ==
    \/ resp.http = "Forbidden"
    \/ /\ resp.http = "OK"
       /\ resp.body.json
       /\ ("message" \in DOMAIN resp.body.obj \/ ~resp.setCookie.present)

\* C12: logout never raises AuthError.  It returns normally when its request
\* could not be built for want of an identity, when a login was refused and
\* when the replay was answered Forbidden; a body that is no JSON
\* (ServerError), an HTTP error other than Forbidden and the exception of an
\* exc payload reach the caller.
C12_LogoutSuppressesAuthError ==
    (Done /\ frame.op = "logout")
    => /\ ~(result.kind = "raise" /\ result.exc = "AuthError")
       /\ events = <<>> => result = Return(<<>>)
       /\ events # <<>> =>
            /\ (LastEvent.kind = "login" /\ IsRefusedLogin(LastEvent.resp))
               => result = Return(<<>>)
            /\ (/\ LastEvent.kind = "request"
                /\ LastEvent.why = "replay"
                /\ LastEvent.resp.http = "Forbidden")
               => result = Return(<<>>)
            /\ (/\ LastEvent.kind = "request"
                /\ LastEvent.resp.http = "OK"
                /\ ~LastEvent.resp.body.json)
               => (result.kind = "raise" /\ result.exc = "ServerError")
            /\ (/\ LastEvent.kind = "request"
                /\ LastEvent.resp.http \notin {"OK", "Forbidden"})
               => result = Raise("HTTPError", [msg |-> LastEvent.resp.http])
            /\ (/\ LastEvent.kind = "request"
                /\ LastEvent.resp.http = "OK"
                /\ LastEvent.resp.body.json
                /\ "exc" \in DOMAIN LastEvent.resp.body.obj)
               => result.kind = "raise"

\* C12 happens: the logout request was answered Forbidden, the forced login
\* was refused, and logout returned.
C12_Witness ==
    /\ Done
    /\ frame.op = "logout"
    /\ Len(events) = 2
    /\ events[1].resp.http = "Forbidden"
    /\ LastEvent.kind = "login"
    /\ IsRefusedLogin(LastEvent.resp)
    /\ result = Return(<<>>)

\* C13: once a method response with a Set-Cookie header has been received,
\* the cookie in memory holds every pair of that header, whatever it was
\* before (held or absent); a response without the header, in a call that
\* makes no login, leaves the cookie as it was.
C13_RenewalAlways ==
    (/\ frame.op = "send_request"
     /\ frame.pc = "idle"
     /\ events # <<>>
     /\ LastEvent.kind = "request"
     /\ LastEvent.resp.http = "OK")
    => IF LastEvent.resp.setCookie.present
       THEN /\ ~sessionCookie.isNone
            /\ \A j \in DOMAIN LastEvent.resp.setCookie.pairs :
                 LET pair == LastEvent.resp.setCookie.pairs[j]
                 IN  /\ pair[1] \in DOMAIN sessionCookie.morsels
                     /\ sessionCookie.morsels[pair[1]] = pair[2]
       ELSE LoginEvents = <<>> => sessionCookie = before.cookie

\* C14: a method response whose body, once response.read() has returned it,
\* is no JSON is the last exchange of the call (no login and no replay
\* follow it) and the call raises ServerError.
C14_NotJSONIsServerError ==
    \A i \in DOMAIN events :
        (/\ events[i].kind = "request"
         /\ events[i].resp.http = "OK"
         /\ events[i].resp.body = NotJSON)
        => /\ i = Len(events)
           /\ frame.pc = "idle"
           /\ result.kind = "raise"
           /\ result.exc = "ServerError"

\* C14 happens: the replay of a send_request got a body that is no JSON.
C14_Witness ==
    /\ Done
    /\ frame.op = "send_request"
    /\ Len(RequestEvents) = 2
    /\ LastEvent.kind = "request"
    /\ LastEvent.resp.http = "OK"
    /\ ~LastEvent.resp.body.json
    /\ result.exc = "ServerError"

\* Both processes have left _save_session.
RaceDone == \A i \in DOMAIN race.p : race.p[i].pc = "done"

\* C15: when two processes run _save_session for different usernames with
\* their steps interleaved, the record the file holds in the end is exactly
\* the record of the process that wrote last, and at no time does the file
\* hold an entry other than one a process set for its own user or one of the
\* record the two found.
C15_LastWriterWins ==
    /\ RaceDone => RecordOf(sessionFile) = race.p[race.last].save
    /\ \A k \in DOMAIN RecordOf(sessionFile) :
          \/ \E i \in DOMAIN race.p :
                /\ k = race.p[i].username
                /\ RecordOf(sessionFile)[k] = race.p[i].cookie
          \/ /\ k \in DOMAIN race.first
             /\ RecordOf(sessionFile)[k] = race.first[k]

\* C15 happens: both saves are over and the entry of the process that wrote
\* first is missing from the file.
C15_Witness ==
    /\ RaceDone
    /\ race.last \in DOMAIN race.p
    /\ race.p[race.last].username \in DOMAIN RecordOf(sessionFile)
    /\ \E i \in DOMAIN race.p :
          /\ i # race.last
          /\ race.p[i].username \notin DOMAIN RecordOf(sessionFile)

\* C16: whenever this client's _save_session has written into the session
\* file, the file's mode is owner read/write only, also when the file was
\* there with wider permissions and also when the dump failed half way.
C16_ModeOwnerOnly ==
    [][(/\ sessionFile' # sessionFile
        /\ sessionFile' # OtherFile
        /\ sessionFile'.content # <<>>)
       => sessionFile'.mode = OwnerOnly]_vars

\* C16 happens: a login saved into a file that was world-readable, and the
\* dump failed after its first bytes.
C16_Witness ==
    /\ saved # NotSaved
    /\ ~saved.written
    /\ before.file.isfile
    /\ before.file.mode # OwnerOnly
    /\ sessionFile # before.file
    /\ sessionFile.content # <<>>
    /\ sessionFile.mode = OwnerOnly

\* The answer of an exchange is in: an HTTP error, or a page whose body has
\* been read.
AnswerIn(resp) == resp.http # "pending" /\ (resp.http = "OK" => resp.body.read)

\* C17: a forced re-authentication that succeeds is followed at once by the
\* replay, sent with the method path, auth flag and parameters of the first
\* attempt and with the credential of that login as its Cookie header; one
\* that fails ends the call with an exception (AuthError when the login was
\* refused) and no replay; and no replay is sent but right after a forced
\* re-authentication that succeeded.
C17_ReplaySameRequest ==
    frame.op = "send_request"
    => \A i \in DOMAIN events :
         /\ (/\ events[i].kind = "login"
             /\ events[i].why = "reauth"
             /\ AnswerIn(events[i].resp))
            => IF IsGoodLogin(events[i].resp)
               THEN /\ i < Len(events)
                    /\ events[i + 1].kind = "request"
                    /\ events[i + 1].why = "replay"
                    /\ events[i + 1].method = RequestEvents[1].method
                    /\ events[i + 1].auth = RequestEvents[1].auth
                    /\ events[i + 1].reqParams = RequestEvents[1].reqParams
                    /\ events[i + 1].cookie.pairs =
                          SimpleCookie_output(SimpleCookie_load(SimpleCookie,
                              events[i].resp.setCookie.pairs))
               ELSE /\ i = Len(events)
                    /\ frame.pc = "idle"
                    /\ result.kind = "raise"
                    /\ IsRefusedLogin(events[i].resp) => result.exc = "AuthError"
         /\ (events[i].kind = "request" /\ events[i].why = "replay")
            => /\ i > 1
               /\ events[i - 1].kind = "login"
               /\ events[i - 1].why = "reauth"
               /\ IsGoodLogin(events[i - 1].resp)

\* C18: an _authenticate call that raises AuthError, and one answered from
\* the cookie in memory, leave the session file exactly as it was; after a
\* login that succeeds and whose write succeeds, the file's entry for the
\* client's username is the credential returned.
C18_FileWrittenOnlyOnSuccess ==
    (Done /\ frame.op = "_authenticate")
    => /\ (result.kind = "raise" /\ result.exc = "AuthError")
          => LeftAlone(before.file, sessionFile)
       /\ (result.kind = "return" /\ events = <<>>)
          => LeftAlone(before.file, sessionFile)
       /\ (/\ result.kind = "return"
           /\ events # <<>>
           /\ saved.written
           /\ sessionFile # OtherFile)
          => /\ username \in DOMAIN RecordOf(sessionFile)
             /\ RecordOf(sessionFile)[username] = result.value

\* C18 happens: the server answered a login with a message payload, and
\* _authenticate raised AuthError with writes to the session file possible.
C18_Witness ==
    /\ Done
    /\ frame.op = "_authenticate"
    /\ sessionFile = before.file
    /\ events # <<>>
    /\ LastEvent.resp.http = "OK"
    /\ LastEvent.resp.body.json
    /\ "message" \in DOMAIN LastEvent.resp.body.obj
    /\ result.exc = "AuthError"

\* Two values of self._sessionCookie are the same credential: equal, or both
\* no credential at all (None, or a SimpleCookie with no morsel).
SameCredential(c, d) == c = d \/ (~CookieTruthy(c) /\ ~CookieTruthy(d))

\* C19: a send_request or logout that makes no login and whose responses
\* carry no Set-Cookie header leaves the credential in memory as it was, and
\* so does an _authenticate call that ends in AuthError.
C19_CookieFrame ==
    /\ (/\ Done
        /\ frame.op \in {"send_request", "logout"}
        /\ LoginEvents = <<>>
        /\ \A i \in DOMAIN events : ~events[i].resp.setCookie.present)
       => SameCredential(sessionCookie, before.cookie)
    /\ (/\ Done
        /\ frame.op = "_authenticate"
        /\ result.kind = "raise"
        /\ result.exc = "AuthError")
       => SameCredential(sessionCookie, before.cookie)

\* C20: after logout has returned, whatever the server answered, the cookie
\* in memory is absent.
C20_LogoutDiscards ==
    (Done /\ frame.op = "logout" /\ result.kind = "return")
    => sessionCookie = NoneCookie

\* C21: once _get_branches has fetched the branch information from the
\* server, every later call with refresh=False returns the cached information
\* without contacting the server, whatever the server answered; a call with
\* refresh=True contacts the server, and a call that the server has answered
\* with the collections returns them and leaves them in the cache.
C21_BranchCache ==
    frame.op = "_get_branches"
    => /\ (pkgdb.hadFetched /\ ~pkgdb.refresh)
          => (events = <<>> /\ result.kind = "return")
       /\ pkgdb.refresh => events # <<>>
       /\ (Done /\ pkgdb.fetched /\ ~pkgdb.hadFetched)
          => (result.kind = "return" /\ BranchesTruthy(pkgdb.branches))

\* C22: a client constructed with a username and no password, when the
\* session file holds a credential for that username, starts with that
\* credential in memory; a send_request with auth=True of a client that holds
\* a credential starts with the method request carrying it, with no login;
\* a client constructed with both username and password makes exactly one
\* login request during construction, a forced one.
C22_CachedAcrossInvocations ==
    /\ (/\ frame.op = "__init__"
        /\ Truthy(username)
        /\ ~Truthy(password)
        /\ username \in DOMAIN RecordOf(before.file))
       => /\ result.kind = "return"
          /\ constructed
          /\ sessionCookie = RecordOf(before.file)[username]
    /\ (/\ frame.op = "send_request"
        /\ frame.auth
        /\ CookieTruthy(before.cookie))
       => /\ events # <<>>
          /\ events[1].kind = "request"
          /\ events[1].cookie = Header(SimpleCookie_output(before.cookie))
    /\ (/\ frame.op = "__init__"
        /\ Truthy(username)
        /\ Truthy(password))
       => /\ Len(events) = 1
          /\ events[1].kind = "login"
          /\ events[1].why = "direct"
          /\ frame.force

\* C23: a payload holding both exc and logging_in makes send_request fail
\* with the application error on that attempt: the exchange is the last of
\* the call (no login, no replay).
C23_ExcBeforeLoggingIn ==
    \A i \in DOMAIN events :
        (/\ events[i].kind = "request"
         /\ events[i].resp.http = "OK"
         /\ events[i].resp.body.json
         /\ "exc" \in DOMAIN events[i].resp.body.obj
         /\ "logging_in" \in DOMAIN events[i].resp.body.obj)
        => /\ i = Len(events)
           /\ frame.pc = "idle"
           /\ frame.op = "send_request"
              => (result.kind = "raise" /\ result.exc = "AppError")

\* No record in the session file holds a key that only a method's Set-Cookie
\* header hands out.
NoRenewalOnDisk ==
    \A k \in DOMAIN RecordOf(sessionFile) :
        \A j \in DOMAIN Renewal.pairs :
            Renewal.pairs[j][1] \notin DOMAIN RecordOf(sessionFile)[k].morsels

\* C24: when a method response carries a Set-Cookie header and a cookie
\* object is in memory, the cookie holds the header's pairs from the moment
\* urlopen has returned, while the call still waits for the body, and
\* afterwards, also when the same response makes send_request raise (a body
\* that is no JSON, an exc payload); the session file is not touched by a
\* call that makes no login, and never holds a renewed cookie.
C24_RenewalBeforeInterpretation ==
    /\ NoRenewalOnDisk
    /\ (/\ frame.op \in {"send_request", "logout"}
        /\ frame.pc \in {"body", "idle"}
        /\ events # <<>>
        /\ LastEvent.kind = "request"
        /\ LastEvent.resp.http = "OK"
        /\ LastEvent.resp.setCookie.present
        /\ ~sessionCookie.isNone)
       => /\ \A j \in DOMAIN LastEvent.resp.setCookie.pairs :
               LET pair == LastEvent.resp.setCookie.pairs[j]
               IN  /\ pair[1] \in DOMAIN sessionCookie.morsels
                   /\ sessionCookie.morsels[pair[1]] = pair[2]
          /\ LoginEvents = <<>> => LeftAlone(before.file, sessionFile)

\* C24 happens: a client holding a cookie got a method response with a
\* Set-Cookie header and a body that is no JSON; send_request raised
\* ServerError and the cookie in memory has the new pair.
C24_Witness ==
    /\ Done
    /\ frame.op = "send_request"
    /\ CookieTruthy(before.cookie)
    /\ LastEvent.kind = "request"
    /\ LastEvent.resp.setCookie.present
    /\ ~LastEvent.resp.body.json
    /\ result.exc = "ServerError"
    /\ sessionCookie # before.cookie
    /\ sessionFile.isfile

\* C25: one top-level send_request sends at most two requests to the method
\* and at most two login requests, and has ended with a result or an
\* exception whenever no exchange is pending.
C25_RequestBudget ==
    frame.op = "send_request"
    => /\ Len(RequestEvents) <= 2
       /\ Len(LoginEvents) <= 2
       /\ frame.pc = "idle" => result.kind \in {"return", "raise"}

\* C26: a _save_session that fails at a step of its write half loses no
\* persisted data: the file still holds every entry of every other username
\* that it held before the save.
C26_FailedSaveKeepsOthers ==
    (saved # NotSaved /\ ~saved.written)
    => \A k \in DOMAIN saved.record \ {saved.username} :
         /\ k \in DOMAIN RecordOf(sessionFile)
         /\ RecordOf(sessionFile)[k] = saved.record[k]

\* C27: every key this client writes into the persisted record is a present
\* username: the record holds no entry keyed by an absent username, a call
\* adds or changes no entry but that of the client's own, present username,
\* and a client without username leaves the file as it was.
C27_KeysArePresentUsernames ==
    /\ \A k \in DOMAIN RecordOf(sessionFile) : Truthy(k)
    /\ \A k \in DOMAIN RecordOf(sessionFile) :
          \/ sessionFile = OtherFile
          \/ /\ k \in DOMAIN RecordOf(before.file)
             /\ RecordOf(sessionFile)[k] = RecordOf(before.file)[k]
          \/ k = username /\ Truthy(username)
    /\ (frame.op # "none" /\ ~Truthy(username))
       => LeftAlone(before.file, sessionFile)

\* C27 happens: a client with a password and no username was asked to log
\* in, by _authenticate(force=True) or by a send_request with auth=True, and
\* the call ended in AuthError with nothing sent.
C27_Witness ==
    /\ Done
    /\ frame.op \in {"_authenticate", "send_request"}
    /\ ~Truthy(username)
    /\ Truthy(password)
    /\ events = <<>>
    /\ result.exc = "AuthError"
    /\ sessionFile = before.file
====
